---- MODULE Spec2Model ----
(***************************************************************************)
(* Model of frontend/src/utils/taskHelpers.ts: the backward-compatibility  *)
(* helpers that resolve file_id / tracking_mode / assignment fields of     *)
(* loosely typed task and file records.                                    *)
(*                                                                         *)
(* JavaScript values are tagged records.  Objects live in a heap (a        *)
(* sequence of cells, the address is the index) and are passed by          *)
(* reference, so that "a new object" and "the argument is not mutated"     *)
(* are statements about the model.  A thrown TypeError is a value that     *)
(* propagates through every expression, so that "never throws" is one too. *)
(***************************************************************************)
EXTENDS Integers, Sequences, FiniteSets, TLC

VARIABLES heap, input, result, pc

vars == <<heap, input, result, pc>>

(***************************************************************************)
(* Bounds of the model.                                                    *)
(***************************************************************************)
\* longest task array handed to normalizeTasks
MaxTasks == 2

(***************************************************************************)
(* JavaScript values.                                                      *)
(***************************************************************************)
Undefined == [type |-> "undefined"]

Null == [type |-> "null"]

Str(s) == [type |-> "string", val |-> s]

Num(n) == [type |-> "number", val |-> n]

Ref(a) == [type |-> "object", val |-> a]

Arr(s) == [type |-> "array", val |-> s]

Bool(b) == [type |-> "boolean", val |-> b]

\* the exception raised by a property read on undefined or null
TypeError == [type |-> "TypeError"]

MsPerDay == 86400000

\* a Date object: its time value is day * MsPerDay + ms, or NaN (valid = FALSE)
DateOf(d, m) == [type |-> "date", valid |-> TRUE, day |-> d, ms |-> m]

InvalidDate == [type |-> "date", valid |-> FALSE, day |-> 0, ms |-> 0]

\* an object literal's fields: a function from its own keys to values
EmptyFields == [k \in {} |-> Undefined]

IsError(v) == v.type = "TypeError"

IsNullish(v) == v.type = "undefined" \/ v.type = "null"

IsObject(v) == v.type = "object"

IsArray(v) == v.type = "array"

\* ToBoolean, as applied by !x, x || y and if (x)
Truthy(v) ==
  CASE v.type = "undefined" -> FALSE
    [] v.type = "null" -> FALSE
    [] v.type = "string" -> v.val # ""
    [] v.type = "number" -> v.val # 0
    [] v.type = "boolean" -> v.val
    [] OTHER -> TRUE

\* a === b on primitives and references: same type and same value
StrictEquals(a, b) == a.type = b.type /\ a = b

\* a || b: b is evaluated only when a is falsy; an exception in a propagates
Or(a, b) == IF IsError(a) THEN a ELSE IF Truthy(a) THEN a ELSE b

\* v.k: throws on undefined and null, reads an own key of an object, and is
\* undefined for a missing key and for the keys of this module on primitives
\* and arrays
Get(h, v, k) ==
  IF IsError(v) THEN v
  ELSE IF IsNullish(v) THEN TypeError
  ELSE IF IsObject(v)
       THEN IF k \in DOMAIN h[v.val] THEN h[v.val][k] ELSE Undefined
       ELSE Undefined

\* v?.k: undefined when v is undefined or null, v.k otherwise
OptGet(h, v, k) ==
  IF IsError(v) THEN v
  ELSE IF IsNullish(v) THEN Undefined
  ELSE Get(h, v, k)

\* if (c) a else b, where evaluating c may throw
If(c, a, b) == IF IsError(c) THEN c ELSE IF Truthy(c) THEN a ELSE b

\* the own enumerable properties copied by {...v}: those of an object, the
\* index keys of an array, none for undefined, null, numbers, booleans and ""
Spread(h, v) ==
  IF IsObject(v) THEN h[v.val]
  ELSE IF IsArray(v)
       THEN [k \in {ToString(i - 1) : i \in DOMAIN v.val} |->
               v.val[CHOOSE i \in DOMAIN v.val : ToString(i - 1) = k]]
       ELSE EmptyFields

\* { ...base, k1: v1, ... }: later keys override the spread ones; the object
\* is allocated in a fresh heap cell unless evaluating a field threw
ObjectLiteral(h, base, over) ==
  IF \E k \in DOMAIN over : IsError(over[k])
  THEN [heap |-> h, ret |-> TypeError]
  ELSE [heap |-> Append(h, [k \in DOMAIN base \cup DOMAIN over |->
                              IF k \in DOMAIN over THEN over[k] ELSE base[k]]),
        ret |-> Ref(Len(h) + 1)]

\* Date.parse on the timestamps that occur in the inputs; any other string is
\* not a date
DateParse(s) ==
  CASE s = "2024-01-01T00:00:00Z" -> DateOf(19723, 0)
    [] s = "2023-06-15T12:30:00Z" -> DateOf(19523, 45000000)
    [] OTHER -> InvalidDate

\* new Date(v): a string is parsed, a number is a time value in ms, null is
\* 0, undefined and plain objects give an Invalid Date
NewDate(v) ==
  CASE IsError(v) -> v
    [] v.type = "string" -> DateParse(v.val)
    [] v.type = "number" -> DateOf(v.val \div MsPerDay, v.val % MsPerDay)
    [] v.type = "null" -> DateOf(0, 0)
    [] v.type = "boolean" -> DateOf(0, IF v.val THEN 1 ELSE 0)
    [] OTHER -> InvalidDate

(***************************************************************************)
(* getFileId                                                               *)
(***************************************************************************)
\* the legacy top-level field probed before the current one
getFileId_LegacyFirst(h, item) ==
  IF ~Truthy(item) THEN Null
  ELSE Or(Get(h, item, "permit_file_id"),
       Or(Get(h, item, "file_id"),
       Or(OptGet(h, Get(h, item, "source"), "permit_file_id"),
       Or(OptGet(h, Get(h, item, "source"), "file_id"),
          Null))))

\* source read with . instead of ?. : a missing source throws
getFileId_UnguardedSource(h, item) ==
  IF ~Truthy(item) THEN Null
  ELSE Or(Get(h, item, "file_id"),
       Or(Get(h, item, "permit_file_id"),
       Or(Get(h, Get(h, item, "source"), "permit_file_id"),
       Or(Get(h, Get(h, item, "source"), "file_id"),
          Null))))

getFileId(h, item) ==
  IF ~Truthy(item) THEN Null
  ELSE Or(Get(h, item, "file_id"),
       Or(Get(h, item, "permit_file_id"),
       Or(OptGet(h, Get(h, item, "source"), "permit_file_id"),
       Or(OptGet(h, Get(h, item, "source"), "file_id"),
          Null))))

(***************************************************************************)
(* isStandaloneTask                                                        *)
(***************************************************************************)
isStandaloneTask(h, task) ==
  IF ~Truthy(task) THEN Bool(FALSE)
  ELSE IF StrictEquals(Get(h, task, "tracking_mode"), Str("STANDALONE"))
       THEN Bool(TRUE)
  ELSE IF StrictEquals(Get(h, task, "tracking_mode"), Str("FILE_BASED"))
       THEN Bool(FALSE)
  ELSE If(getFileId(h, task), Bool(FALSE), Bool(TRUE))

(***************************************************************************)
(* getTrackingMode                                                         *)
(***************************************************************************)
\* the explicit field is ignored and the mode always inferred
getTrackingMode_InferOnly(h, task) ==
  IF ~Truthy(task) THEN Str("STANDALONE")
  ELSE If(getFileId(h, task), Str("FILE_BASED"), Str("STANDALONE"))

getTrackingMode(h, task) ==
  IF ~Truthy(task) THEN Str("STANDALONE")
  ELSE If(Get(h, task, "tracking_mode"),
          Get(h, task, "tracking_mode"),
          If(getFileId(h, task), Str("FILE_BASED"), Str("STANDALONE")))

(***************************************************************************)
(* normalizeTask                                                           *)
(***************************************************************************)
\* the overlay assigned onto the argument itself (Object.assign(task, ...))
normalizeTask_InPlace(h, task) ==
  IF ~Truthy(task) THEN [heap |-> h, ret |-> task]
  ELSE LET made == ObjectLiteral(h, Spread(h, task),
                  [file_id |-> getFileId(h, task),
                   tracking_mode |-> getTrackingMode(h, task),
                   assigned_to |-> Or(Get(h, task, "assigned_to"),
                                   Or(Get(h, task, "assignment"),
                                      Get(h, task, "employee_code")))])
       IN  IF IsObject(task) /\ IsObject(made.ret)
           THEN [heap |-> [h EXCEPT ![task.val] = made.heap[made.ret.val]],
                 ret |-> task]
           ELSE made

\* file_id taken from the legacy field when there is one
normalizeTask_LegacyFirst(h, task) ==
  IF ~Truthy(task) THEN [heap |-> h, ret |-> task]
  ELSE ObjectLiteral(h, Spread(h, task),
         [file_id |-> Or(Get(h, task, "permit_file_id"), getFileId(h, task)),
          tracking_mode |-> getTrackingMode(h, task),
          assigned_to |-> Or(Get(h, task, "assigned_to"),
                          Or(Get(h, task, "assignment"),
                             Get(h, task, "employee_code")))])

normalizeTask(h, task) ==
  IF ~Truthy(task) THEN [heap |-> h, ret |-> task]
  ELSE LET fileId == getFileId(h, task)
           trackingMode == getTrackingMode(h, task)
       IN  IF IsError(fileId) \/ IsError(trackingMode)
           THEN [heap |-> h, ret |-> TypeError]
           ELSE ObjectLiteral(h, Spread(h, task),
                  [file_id |-> fileId,
                   tracking_mode |-> trackingMode,
                   assigned_to |-> Or(Get(h, task, "assigned_to"),
                                   Or(Get(h, task, "assignment"),
                                      Get(h, task, "employee_code")))])

(***************************************************************************)
(* normalizeTasks                                                          *)
(***************************************************************************)
\* tasks.map(normalizeTask) from index i on: the elements are normalized in
\* order, each allocation is visible to the next call, a throw ends the map
RECURSIVE MapNormalizeTask(_, _, _)
MapNormalizeTask(h, s, i) ==
  IF i > Len(s) THEN [heap |-> h, ret |-> Arr(<<>>)]
  ELSE LET first == normalizeTask(h, s[i])
           rest == MapNormalizeTask(first.heap, s, i + 1)
       IN  IF IsError(first.ret) THEN first
           ELSE IF IsError(rest.ret) THEN rest
           ELSE [heap |-> rest.heap, ret |-> Arr(<<first.ret>> \o rest.ret.val)]

RECURSIVE Reverse(_)
Reverse(s) == IF s = <<>> THEN <<>> ELSE Reverse(Tail(s)) \o <<Head(s)>>

\* the normalized tasks collected in reverse order
normalizeTasks_Reversed(h, tasks) ==
  IF ~IsArray(tasks) THEN [heap |-> h, ret |-> Arr(<<>>)]
  ELSE LET out == MapNormalizeTask(h, tasks.val, 1)
       IN  [heap |-> out.heap, ret |-> Arr(Reverse(out.ret.val))]

normalizeTasks(h, tasks) ==
  IF ~IsArray(tasks) THEN [heap |-> h, ret |-> Arr(<<>>)]
  ELSE MapNormalizeTask(h, tasks.val, 1)

(***************************************************************************)
(* getFileDisplayName                                                      *)
(***************************************************************************)
getFileDisplayName(h, item) ==
  LET fileId == getFileId(h, item)
  IN  If(fileId,
         If(Get(h, item, "file_name"), Get(h, item, "file_name"),
            If(Get(h, item, "original_filename"),
               Get(h, item, "original_filename"),
               fileId)),
         Str("Standalone Task"))

(***************************************************************************)
(* getAssignmentInfo                                                       *)
(***************************************************************************)
\* the gaps of the current shape filled from the legacy one
getAssignmentInfo_Mixed(h, file) ==
  IF ~Truthy(file) THEN [heap |-> h, ret |-> Null]
  ELSE LET current == Get(h, file, "current_assignment")
           legacy == Get(h, file, "assignment")
       IN  IF Truthy(current)
           THEN ObjectLiteral(h, EmptyFields,
                  [assignedTo |-> Get(h, current, "employee_code"),
                   assignedToName |-> Or(Get(h, current, "employee_name"),
                                         OptGet(h, legacy, "employee_name")),
                   assignedAt |-> NewDate(Or(Get(h, current, "assigned_at"),
                                             OptGet(h, legacy, "assigned_at"))),
                   stage |-> Get(h, current, "stage")])
           ELSE IF Truthy(legacy)
           THEN ObjectLiteral(h, EmptyFields,
                  [assignedTo |-> Get(h, legacy, "assigned_to"),
                   assignedToName |-> Undefined,
                   assignedAt |-> NewDate(Get(h, legacy, "assigned_at")),
                   stage |-> Get(h, legacy, "assigned_for_stage")])
           ELSE [heap |-> h, ret |-> Null]

getAssignmentInfo(h, file) ==
  IF ~Truthy(file) THEN [heap |-> h, ret |-> Null]
  ELSE LET current == Get(h, file, "current_assignment")
           legacy == Get(h, file, "assignment")
       IN  IF Truthy(current)
           THEN ObjectLiteral(h, EmptyFields,
                  [assignedTo |-> Get(h, current, "employee_code"),
                   assignedToName |-> Get(h, current, "employee_name"),
                   assignedAt |-> NewDate(Get(h, current, "assigned_at")),
                   stage |-> Get(h, current, "stage")])
           ELSE IF Truthy(legacy)
           THEN ObjectLiteral(h, EmptyFields,
                  [assignedTo |-> Get(h, legacy, "assigned_to"),
                   assignedToName |-> Undefined,
                   assignedAt |-> NewDate(Get(h, legacy, "assigned_at")),
                   stage |-> Get(h, legacy, "assigned_for_stage")])
           ELSE [heap |-> h, ret |-> Null]

(***************************************************************************)
(* getAssignedTo                                                           *)
(***************************************************************************)
getAssignedTo(h, task) ==
  IF ~Truthy(task) THEN Null
  ELSE Or(Get(h, task, "assigned_to"),
       Or(Get(h, task, "assignment"),
       Or(Get(h, task, "employee_code"),
       Or(Get(h, task, "assigned_to_employee_code"),
          Null))))

(***************************************************************************)
(* The records callers pass in.  They come from JSON, so a key is either   *)
(* missing or holds null, a string, a number, or a nested object; a field  *)
(* drawn as Undefined below is a missing key.                              *)
(***************************************************************************)
Object(f) == [k \in {j \in DOMAIN f : f[j] # Undefined} |-> f[k]]

\* tasks that differ in where (and whether) a file identifier and a tracking
\* mode are found
IdentifiedTasks ==
  [file_id : {Undefined, Str(""), Str("F1")},
   permit_file_id : {Undefined, Null, Str("F2")},
   source : {Undefined, Null, Str("api"), Ref(2)},
   tracking_mode : {Undefined, Null, Str("FILE_BASED"), Str("STANDALONE"),
                    Str("BOGUS"), Num(1)},
   title : {Str("Inspect")}]

NestedSources ==
  [permit_file_id : {Undefined, Str("F3")}, file_id : {Undefined, Str("F4")}]

\* tasks that differ in where the assignee is found
AssignedTasks ==
  [assigned_to : {Undefined, Str("E1")},
   assignment : {Undefined, Str("E2")},
   employee_code : {Undefined, Null, Str("E3")},
   assigned_to_employee_code : {Undefined, Str("E4")},
   file_id : {Undefined, Str("F1")},
   title : {Undefined, Str("Inspect")}]

\* items that differ in their display fields
NamedItems ==
  [file_id : {Undefined, Str("F1")},
   file_name : {Undefined, Str(""), Str("plan.pdf")},
   original_filename : {Undefined, Str("scan.pdf")}]

\* files with the current and the legacy assignment shape
Files ==
  [current_assignment : {Undefined, Null, Str("E9"), Ref(2)},
   assignment : {Undefined, Null, Str("E8"), Ref(3)},
   file_id : {Str("F1")}]

CurrentAssignments ==
  [employee_code : {Undefined, Str("E1")},
   employee_name : {Undefined, Str("Ann")},
   assigned_at : {Undefined, Str("2024-01-01T00:00:00Z")},
   stage : {Str("review")}]

LegacyAssignments ==
  [assigned_to : {Str("E2")},
   assigned_at : {Undefined, Str("2023-06-15T12:30:00Z"), Str("soon")},
   assigned_for_stage : {Undefined, Str("intake")},
   employee_name : {Undefined, Str("Bob")}]

\* the elements of a task array: null or a task object
ArrayTasks ==
  {Object([file_id |-> Undefined]),
   Object([file_id |-> Str("F1")]),
   Object([permit_file_id |-> Str("F2"), title |-> Str("Inspect")]),
   Object([tracking_mode |-> Str("STANDALONE"), file_id |-> Str("F1")]),
   Object([assigned_to |-> Str("E1")])}

ArrayElements ==
  {[isObject |-> TRUE, fields |-> f, value |-> Null] : f \in ArrayTasks}
    \cup {[isObject |-> FALSE, fields |-> EmptyFields, value |-> Null]}

\* the address of the i-th element of e, when it is an object: objects are
\* laid out in the heap in array order
ElementAddress(e, i) == Cardinality({j \in 1..i : e[j].isObject})

ArrayWorld(e) ==
  [heap |-> [a \in 1..ElementAddress(e, Len(e)) |->
               e[CHOOSE i \in 1..Len(e) :
                    e[i].isObject /\ ElementAddress(e, i) = a].fields],
   input |-> Arr([i \in 1..Len(e) |->
               IF e[i].isObject THEN Ref(ElementAddress(e, i)) ELSE e[i].value])]

\* a file whose nested assignment objects are cur and leg; the legacy object
\* sits in cell 2 when there is no current one
FileWorld(f, cur, leg) ==
  LET hasCur == f.current_assignment = Ref(2)
      hasLeg == f.assignment = Ref(3)
      file == IF hasLeg /\ ~hasCur THEN [f EXCEPT !.assignment = Ref(2)] ELSE f
  IN  [heap |-> <<Object(file)>>
                  \o (IF hasCur THEN <<Object(cur)>> ELSE <<>>)
                  \o (IF hasLeg THEN <<Object(leg)>> ELSE <<>>),
       input |-> Ref(1)]

AnyOf(S) == CHOOSE x \in S : TRUE

Worlds ==
  {[heap |-> <<Object(t)>>, input |-> Ref(1)] :
      t \in {u \in IdentifiedTasks : u.source # Ref(2)}}
  \cup {[heap |-> <<Object(t), Object(s)>>, input |-> Ref(1)] :
      t \in {u \in IdentifiedTasks : u.source = Ref(2)}, s \in NestedSources}
  \cup {[heap |-> <<Object(t)>>, input |-> Ref(1)] :
      t \in AssignedTasks \cup NamedItems}
  \cup {FileWorld(f, cur, leg) :
      f \in {g \in Files : g.current_assignment = Ref(2) /\ g.assignment = Ref(3)},
      cur \in CurrentAssignments, leg \in LegacyAssignments}
  \cup {FileWorld(f, cur, AnyOf(LegacyAssignments)) :
      f \in {g \in Files : g.current_assignment = Ref(2) /\ g.assignment # Ref(3)},
      cur \in CurrentAssignments}
  \cup {FileWorld(f, AnyOf(CurrentAssignments), leg) :
      f \in {g \in Files : g.current_assignment # Ref(2) /\ g.assignment = Ref(3)},
      leg \in LegacyAssignments}
  \cup {FileWorld(f, AnyOf(CurrentAssignments), AnyOf(LegacyAssignments)) :
      f \in {g \in Files : g.current_assignment # Ref(2) /\ g.assignment # Ref(3)}}
  \cup {ArrayWorld(e) : e \in UNION {[1..n -> ArrayElements] : n \in 0..MaxTasks}}
  \cup {[heap |-> <<>>, input |-> v] :
      v \in {Undefined, Null, Str(""), Num(0), Num(7), Bool(FALSE), Bool(TRUE)}}

(***************************************************************************)
(* The caller: it holds one input and calls one of the helpers on it.      *)
(***************************************************************************)
Init ==
  /\ \E w \in Worlds : heap = w.heap /\ input = w.input
  /\ result = Undefined
  /\ pc = "start"

CallGetFileId ==
  /\ pc = "start"
  /\ result' = getFileId(heap, input)
  /\ pc' = "getFileId"
  /\ UNCHANGED <<heap, input>>

CallIsStandaloneTask ==
  /\ pc = "start"
  /\ result' = isStandaloneTask(heap, input)
  /\ pc' = "isStandaloneTask"
  /\ UNCHANGED <<heap, input>>

CallGetTrackingMode ==
  /\ pc = "start"
  /\ result' = getTrackingMode(heap, input)
  /\ pc' = "getTrackingMode"
  /\ UNCHANGED <<heap, input>>

CallNormalizeTask ==
  /\ pc = "start"
  /\ LET out == normalizeTask(heap, input)
     IN  /\ result' = out.ret
         /\ heap' = out.heap
  /\ pc' = "normalizeTask"
  /\ UNCHANGED input

CallNormalizeTasks ==
  /\ pc = "start"
  /\ LET out == normalizeTasks(heap, input)
     IN  /\ result' = out.ret
         /\ heap' = out.heap
  /\ pc' = "normalizeTasks"
  /\ UNCHANGED input

CallGetFileDisplayName ==
  /\ pc = "start"
  /\ result' = getFileDisplayName(heap, input)
  /\ pc' = "getFileDisplayName"
  /\ UNCHANGED <<heap, input>>

CallGetAssignmentInfo ==
  /\ pc = "start"
  /\ LET out == getAssignmentInfo(heap, input)
     IN  /\ result' = out.ret
         /\ heap' = out.heap
  /\ pc' = "getAssignmentInfo"
  /\ UNCHANGED input

CallGetAssignedTo ==
  /\ pc = "start"
  /\ result' = getAssignedTo(heap, input)
  /\ pc' = "getAssignedTo"
  /\ UNCHANGED <<heap, input>>

Next ==
  \/ CallGetFileId
  \/ CallIsStandaloneTask
  \/ CallGetTrackingMode
  \/ CallNormalizeTask
  \/ CallNormalizeTasks
  \/ CallGetFileDisplayName
  \/ CallGetAssignmentInfo
  \/ CallGetAssignedTo

Spec == Init /\ [][Next]_vars

(***************************************************************************)
(* Vocabulary of the properties.                                           *)
(***************************************************************************)
\* the value a record holds under key k, Undefined when the key is missing
FieldOf(f, k) == IF k \in DOMAIN f THEN f[k] ELSE Undefined

\* the value v holds under key k when v is an object, Undefined otherwise
PropertyOf(v, k) == IF IsObject(v) THEN FieldOf(heap[v.val], k) ELSE Undefined

Same(a, b) == a.type = b.type /\ a = b

IsMode(v) == v.type = "string" /\ v.val \in {"FILE_BASED", "STANDALONE"}

Returned(name) == pc = name

(***************************************************************************)
(* C1                                                                      *)
(***************************************************************************)
\* the four places an identifier is looked for, in probing order
C1_Probes ==
  <<PropertyOf(input, "file_id"),
    PropertyOf(input, "permit_file_id"),
    PropertyOf(PropertyOf(input, "source"), "permit_file_id"),
    PropertyOf(PropertyOf(input, "source"), "file_id")>>

C1_FirstPresent(p) ==
  IF \E i \in DOMAIN p : Truthy(p[i])
  THEN p[CHOOSE i \in DOMAIN p :
           Truthy(p[i]) /\ \A j \in DOMAIN p : Truthy(p[j]) => i <= j]
  ELSE Null

\* C1: getFileId returns the first truthy value among the top-level file_id,
\* the top-level permit_file_id, source.permit_file_id and source.file_id, in
\* that order, and null when there is none or the input is absent; a truthy
\* top-level file_id is returned whatever else the record holds.
C1_GetFileIdProbeOrder ==
  Returned("getFileId") =>
    /\ IsNullish(input) => Same(result, Null)
    /\ IsObject(input) =>
         /\ Same(result, C1_FirstPresent(C1_Probes))
         /\ Truthy(C1_Probes[1]) => Same(result, C1_Probes[1])

\* a record where all four places hold an identifier and the current
\* top-level one was returned
C1_Witness ==
  /\ Returned("getFileId")
  /\ IsObject(input)
  /\ \A i \in 1..4 : Truthy(C1_Probes[i])
  /\ Same(result, Str("F1"))

(***************************************************************************)
(* C2                                                                      *)
(***************************************************************************)
C2_ExplicitMode == PropertyOf(input, "tracking_mode")

\* C2: for an absent task getTrackingMode returns STANDALONE; for a task whose
\* tracking_mode is FILE_BASED or STANDALONE it returns that value, also when
\* it contradicts the presence of an identifier; for a task with no
\* tracking_mode it returns FILE_BASED exactly when getFileId resolves an
\* identifier and STANDALONE otherwise.
C2_TrackingModeExplicitWins ==
  Returned("getTrackingMode") =>
    /\ IsNullish(input) => Same(result, Str("STANDALONE"))
    /\ IsObject(input) /\ IsMode(C2_ExplicitMode) => Same(result, C2_ExplicitMode)
    /\ IsObject(input) /\ IsNullish(C2_ExplicitMode) =>
         Same(result, IF Truthy(getFileId(heap, input))
                      THEN Str("FILE_BASED") ELSE Str("STANDALONE"))

\* an explicit STANDALONE returned for a task that does carry an identifier
C2_Witness ==
  /\ Returned("getTrackingMode")
  /\ IsObject(input)
  /\ Same(C2_ExplicitMode, Str("STANDALONE"))
  /\ Truthy(getFileId(heap, input))
  /\ Same(result, Str("STANDALONE"))

(***************************************************************************)
(* C3                                                                      *)
(***************************************************************************)
\* C3: the tracking mode returned by getTrackingMode, and the tracking_mode
\* field written by normalizeTask, is FILE_BASED or STANDALONE for every
\* input.
C3_TrackingModeIsEnumMember ==
  /\ Returned("getTrackingMode") => IsMode(result)
  /\ Returned("normalizeTask") /\ IsObject(result) =>
       IsMode(PropertyOf(result, "tracking_mode"))

(***************************************************************************)
(* C10                                                                     *)
(***************************************************************************)
\* C10: isStandaloneTask(task) is true exactly when getTrackingMode(task) is
\* STANDALONE, on every input.
C10_ClassifiersAgree ==
  Returned("isStandaloneTask") =>
    (Same(result, Bool(TRUE))
       <=> Same(getTrackingMode(heap, input), Str("STANDALONE")))

(***************************************************************************)
(* C4                                                                      *)
(***************************************************************************)
OverlaidKeys == {"file_id", "tracking_mode", "assigned_to"}

\* C4: normalizeTask returns an absent input as it is; for a record it returns
\* a reference to a new object, changes no object that existed before the
\* call (the input included), and the new object holds every key of the input
\* other than file_id, tracking_mode and assigned_to with the input's value.
C4_NormalizeTaskIsNonDestructive ==
  [][pc = "start" /\ pc' = "normalizeTask" =>
       /\ IsNullish(input) => Same(result', input)
       /\ IsObject(input) =>
            /\ IsObject(result')
            /\ result'.val \notin DOMAIN heap
            /\ result'.val \in DOMAIN heap'
            /\ \A a \in DOMAIN heap : heap'[a] = heap[a]
            /\ \A k \in DOMAIN heap[input.val] \ OverlaidKeys :
                 /\ k \in DOMAIN heap'[result'.val]
                 /\ Same(heap'[result'.val][k], heap[input.val][k])]_vars

\* a record with keys of its own (a nested source, a title) and stale
\* file_id and tracking_mode values has been normalized into another object
C4_Witness ==
  /\ Returned("normalizeTask")
  /\ IsObject(input)
  /\ IsObject(result)
  /\ result.val # input.val
  /\ IsObject(PropertyOf(input, "source"))
  /\ Same(PropertyOf(result, "source"), PropertyOf(input, "source"))
  /\ Same(PropertyOf(result, "title"), Str("Inspect"))
  /\ ~Same(PropertyOf(result, "file_id"), PropertyOf(input, "file_id"))

(***************************************************************************)
(* C5                                                                      *)
(***************************************************************************)
\* undefined and null both count as the absent value
SameOrBothAbsent(a, b) == (IsNullish(a) /\ IsNullish(b)) \/ Same(a, b)

\* C5: the assigned_to field of normalizeTask(record) is the value
\* getAssignedTo(record) returns (the first present of assigned_to,
\* assignment, employee_code, assigned_to_employee_code, absent when there is
\* none), and its file_id is getFileId(record).
C5_NormalizedAssigneeIsGetAssignedTo ==
  Returned("normalizeTask") /\ IsObject(input) /\ IsObject(result) =>
    /\ SameOrBothAbsent(PropertyOf(result, "assigned_to"),
                        getAssignedTo(heap, input))
    /\ Same(PropertyOf(result, "file_id"), getFileId(heap, input))

(***************************************************************************)
(* C6                                                                      *)
(***************************************************************************)
C6_Current == PropertyOf(input, "current_assignment")

C6_Legacy == PropertyOf(input, "assignment")

\* C6: getAssignmentInfo returns absent for an absent file; with a
\* current_assignment present all four result fields come from it, whatever the
\* legacy assignment holds; with only the legacy assignment present all come
\* from it and assignedToName is absent; with neither present the result is
\* absent.
C6_AssignmentInfoFromOneShape ==
  Returned("getAssignmentInfo") =>
    /\ IsNullish(input) => Same(result, Null)
    /\ IsObject(input) /\ Truthy(C6_Current) =>
         /\ IsObject(result)
         /\ DOMAIN heap[result.val] =
              {"assignedTo", "assignedToName", "assignedAt", "stage"}
         /\ Same(PropertyOf(result, "assignedTo"),
                 PropertyOf(C6_Current, "employee_code"))
         /\ Same(PropertyOf(result, "assignedToName"),
                 PropertyOf(C6_Current, "employee_name"))
         /\ Same(PropertyOf(result, "assignedAt"),
                 NewDate(PropertyOf(C6_Current, "assigned_at")))
         /\ Same(PropertyOf(result, "stage"), PropertyOf(C6_Current, "stage"))
    /\ IsObject(input) /\ ~Truthy(C6_Current) /\ Truthy(C6_Legacy) =>
         /\ IsObject(result)
         /\ DOMAIN heap[result.val] =
              {"assignedTo", "assignedToName", "assignedAt", "stage"}
         /\ Same(PropertyOf(result, "assignedTo"),
                 PropertyOf(C6_Legacy, "assigned_to"))
         /\ Same(PropertyOf(result, "assignedToName"), Undefined)
         /\ Same(PropertyOf(result, "assignedAt"),
                 NewDate(PropertyOf(C6_Legacy, "assigned_at")))
         /\ Same(PropertyOf(result, "stage"),
                 PropertyOf(C6_Legacy, "assigned_for_stage"))
    /\ IsObject(input) /\ ~Truthy(C6_Current) /\ ~Truthy(C6_Legacy) =>
         Same(result, Null)

\* both shapes are present, the current one without a name and without a
\* timestamp, the legacy one with both: nothing was borrowed from the legacy one
C6_Witness ==
  /\ Returned("getAssignmentInfo")
  /\ IsObject(C6_Current)
  /\ IsObject(C6_Legacy)
  /\ Same(PropertyOf(C6_Current, "employee_name"), Undefined)
  /\ Same(PropertyOf(C6_Current, "assigned_at"), Undefined)
  /\ Same(PropertyOf(C6_Legacy, "employee_name"), Str("Bob"))
  /\ Same(PropertyOf(C6_Legacy, "assigned_at"), Str("2023-06-15T12:30:00Z"))
  /\ Same(PropertyOf(result, "assignedToName"), Undefined)
  /\ Same(PropertyOf(result, "assignedAt"), InvalidDate)
  /\ Same(PropertyOf(result, "stage"), Str("review"))

(***************************************************************************)
(* C7                                                                      *)
(***************************************************************************)
\* element v of the result is what normalizeTask makes of element u of the
\* input: the same absent value, or an object with the normalized fields
C7_IsNormalized(v, u) ==
  LET one == normalizeTask(heap, u)
  IN  IF IsObject(one.ret)
      THEN IsObject(v) /\ heap[v.val] = one.heap[one.ret.val]
      ELSE Same(v, one.ret)

\* C7: normalizeTasks returns an empty array for an input that is not an
\* array; for an array the result has the length of the input and its i-th
\* element is normalizeTask of the i-th input element.
C7_NormalizeTasksIsElementwise ==
  Returned("normalizeTasks") =>
    /\ IsArray(result)
    /\ ~IsArray(input) => Len(result.val) = 0
    /\ IsArray(input) =>
         /\ Len(result.val) = Len(input.val)
         /\ \A i \in 1..Len(input.val) :
              C7_IsNormalized(result.val[i], input.val[i])

\* an array of two different tasks has been normalized
C7_Witness ==
  /\ Returned("normalizeTasks")
  /\ IsArray(input)
  /\ Len(input.val) = 2
  /\ IsObject(input.val[1])
  /\ IsObject(input.val[2])
  /\ Same(PropertyOf(input.val[1], "permit_file_id"), Str("F2"))
  /\ Same(PropertyOf(input.val[2], "assigned_to"), Str("E1"))
  /\ Same(PropertyOf(result.val[1], "file_id"), Str("F2"))
  /\ Same(PropertyOf(result.val[2], "file_id"), Null)

(***************************************************************************)
(* C8                                                                      *)
(***************************************************************************)
C8_Default(name) ==
  CASE name = "getFileId" -> Null
    [] name = "getTrackingMode" -> Str("STANDALONE")
    [] name = "normalizeTasks" -> Arr(<<>>)
    [] name = "getAssignedTo" -> Null
    [] name = "getAssignmentInfo" -> Null
    [] name = "getFileDisplayName" -> Str("Standalone Task")

C8_Operations ==
  {"getFileId", "getTrackingMode", "normalizeTask", "normalizeTasks",
   "getAssignedTo", "getAssignmentInfo", "getFileDisplayName"}

C9_FileIdSurvivesNormalization ==
  Returned("normalizeTask") /\ (IsObject(input) \/ IsNullish(input)) =>
    Same(getFileId(heap, result), getFileId(heap, input))

\* a record that holds both a current and a legacy identifier has been
\* normalized
C9_Witness ==
  /\ Returned("normalizeTask")
  /\ IsObject(input)
  /\ Same(PropertyOf(input, "file_id"), Str("F1"))
  /\ Same(PropertyOf(input, "permit_file_id"), Str("F2"))
  /\ Same(getFileId(heap, result), Str("F1"))

====
